---------------------------- MODULE Spec2Model ----------------------------
(***************************************************************************)
(* Model of split_pdf_by_pages (src/main.py): one run of the splitter on   *)
(* an input document of num_pages pages with the argument list arg, on a   *)
(* file system whose output folder may or may not exist beforehand.        *)
(* Each action is one sequential step of the procedure; pc is the          *)
(* position of the run.                                                    *)
(***************************************************************************)
EXTENDS Integers, Sequences, FiniteSets, TLC

\* Bounds of the model.
MaxPages == 4
MaxLen == 3
Slack == 1

\* Page counts of the input document.
PageCounts == 0..MaxPages
\* Integers a caller may put in split_pages: in range and out of range.
Points == (0 - Slack)..(MaxPages + Slack)
\* The argument lists: unsorted, with duplicates, possibly empty.
ArgLists == UNION {[1..n -> Points] : n \in 0..MaxLen}

VARIABLES
    arg,          \* the split_pages argument as passed by the caller
    num_pages,    \* number of pages of the file at input_pdf_path
    fs0,          \* the file system before the run
    pc,           \* position of the run
    doc,          \* input handle: "unopened", "open", "closed"
    total_pages,  \* local total_pages (0 while unbound)
    split_pages,  \* local split_pages after line 29..32
    boundaries,   \* local boundaries
    chunk_idx,    \* loop index
    handles,      \* every output document created by fitz.open(), in order
    folder,       \* os.path.exists(output_folder)
    disk,         \* files of output_folder: name -> content
    written,      \* successful saves of this run, in order
    attempts,     \* names handed to new_doc.save, in order
    skipped,      \* number of passes through the `continue` of line 49
    printed       \* console messages, in order

vars == <<arg, num_pages, fs0, pc, doc, total_pages, split_pages, boundaries,
          chunk_idx, handles, folder, disk, written, attempts, skipped, printed>>

----------------------------------------------------------------------------
\* Pure helpers of the procedure.

\* set(split_pages): the distinct elements of a list.
set(list) == {list[i] : i \in DOMAIN list}

\* sorted(S): the elements of S in ascending order.
RECURSIVE sorted(_)
sorted(S) ==
    IF S = {} THEN <<>>
    ELSE LET m == CHOOSE x \in S : \A y \in S : x <= y
         IN  <<m>> \o sorted(S \ {m})

\* list.sort semantics on a list that keeps its duplicates (insertion sort).
RECURSIVE InsertSorted(_, _)
InsertSorted(x, s) ==
    IF s = <<>> THEN <<x>>
    ELSE IF x <= Head(s) THEN <<x>> \o s
    ELSE <<Head(s)>> \o InsertSorted(x, Tail(s))

RECURSIVE SortKeepingDuplicates(_)
SortKeepingDuplicates(list) ==
    IF list = <<>> THEN <<>>
    ELSE InsertSorted(Head(list), SortKeepingDuplicates(Tail(list)))

\* The distinct elements of a list in order of first occurrence.
RECURSIVE DedupKeepingOrder(_)
DedupKeepingOrder(list) ==
    IF list = <<>> THEN <<>>
    ELSE LET front == DedupKeepingOrder(SubSeq(list, 1, Len(list) - 1))
             x == list[Len(list)]
         IN  IF x \in set(front) THEN front ELSE Append(front, x)

\* Line 29 with the sort forgotten: list(dict.fromkeys(split_pages)).
Normalize_unsorted(list) == DedupKeepingOrder(list)

\* Line 29 with the set() forgotten: sorted(split_pages).
Normalize_duplicates(list) == SortKeepingDuplicates(list)

\* Line 29: sorted(set(split_pages)).
Normalize(list) == sorted(set(list))

\* Line 30 testing only the first point.
NeedsAdjust_firstonly(sp, total) == sp # <<>> /\ sp[1] < 1

\* Line 30: split_pages and (split_pages[0] < 1 or split_pages[-1] >= total_pages).
NeedsAdjust(sp, total) == sp # <<>> /\ (sp[1] < 1 \/ sp[Len(sp)] >= total)

InRange(p, total) == 1 <= p /\ p < total

\* Line 32: [p for p in split_pages if 1 <= p < total_pages].
FilterPoints(sp, total) == SelectSeq(sp, LAMBDA p : InRange(p, total))

\* Lines 29-32.
ValidateSplitPages(list, total) ==
    LET sp == Normalize(list)
    IN  IF NeedsAdjust(sp, total) THEN FilterPoints(sp, total) ELSE sp

\* Line 43.
Boundaries(sp, total) == <<0>> \o sp \o <<total>>

\* insert_pdf(doc, from_page, to_page): the pages from_page..to_page, inclusive.
InsertPdf(from_page, to_page) == from_page..to_page

\* Line 53 with the exclusive end passed as to_page.
ChunkPages_inclusive_end(start_page, end_page) == InsertPdf(start_page, end_page)

\* Line 53: the pages copied into the chunk's document.
ChunkPages(start_page, end_page) == InsertPdf(start_page, end_page - 1)

\* Line 55 with the 0-indexed start in the name.
ChunkName_zero_indexed(start_page, end_page) == <<start_page, end_page>>

\* Line 55: chunk_{start_page + 1}_to_{end_page}.pdf, as the pair of its numbers.
ChunkName(start_page, end_page) == <<start_page + 1, end_page>>

\* What a file of the folder holds.
ChunkFile(pages) == [kind |-> "chunk", pages |-> pages]
PartialFile == [kind |-> "partial", pages |-> {}]
StaleFile == [kind |-> "stale", pages |-> {}]

\* A file of an earlier run that this run's first chunk may overwrite.
StaleName == ChunkName(0, 1)

\* new_doc.save(path) on the folder's files: path holds content afterwards.
Save(files, name, content) ==
    [n \in DOMAIN files \cup {name} |-> IF n = name THEN content ELSE files[n]]

NoFiles == [n \in {} |-> StaleFile]

\* The chunks a whole call writes when the open and every save succeed:
\* lines 24-55 as one function of the argument and the page count.
ChunksOfCall(list, total) ==
    IF total = 0 THEN {}
    ELSE LET sp == ValidateSplitPages(list, total)
             b == Boundaries(sp, total)
         IN  IF sp = <<>> THEN {}
             ELSE {[name |-> ChunkName(b[i], b[i + 1]),
                    pages |-> ChunkPages(b[i], b[i + 1])] :
                      i \in {j \in 1..(Len(b) - 1) : b[j] < b[j + 1]}}

----------------------------------------------------------------------------
\* The run.

Init ==
    /\ arg \in ArgLists
    /\ num_pages \in PageCounts
    /\ fs0 \in {[folder |-> FALSE, disk |-> NoFiles],
                [folder |-> TRUE, disk |-> NoFiles],
                [folder |-> TRUE, disk |-> Save(NoFiles, StaleName, StaleFile)]}
    /\ pc = "open"
    /\ doc = "unopened"
    /\ total_pages = 0
    /\ split_pages = arg
    /\ boundaries = <<>>
    /\ chunk_idx = 0
    /\ handles = <<>>
    /\ folder = fs0.folder
    /\ disk = fs0.disk
    /\ written = <<>>
    /\ attempts = <<>>
    /\ skipped = 0
    /\ printed = <<"attempting_read">>

\* Lines 16-22: open the input; an unreadable input ends the run.
OpenDoc ==
    /\ pc = "open"
    /\ \E readable \in BOOLEAN :
         IF readable
         THEN /\ doc' = "open"
              /\ total_pages' = num_pages
              /\ printed' = Append(printed, "total_pages")
              /\ pc' = "check_pages"
         ELSE /\ printed' = Append(printed, "error_reading")
              /\ pc' = "done"
              /\ UNCHANGED <<doc, total_pages>>
    /\ UNCHANGED <<arg, num_pages, fs0, split_pages, boundaries, chunk_idx,
                   handles, folder, disk, written, attempts, skipped>>

\* Lines 24-26: an empty document ends the run (no doc.close() here).
CheckEmpty ==
    /\ pc = "check_pages"
    /\ IF total_pages = 0
       THEN /\ printed' = Append(printed, "no_pages")
            /\ pc' = "done"
       ELSE /\ pc' = "validate"
            /\ UNCHANGED printed
    /\ UNCHANGED <<arg, num_pages, fs0, doc, total_pages, split_pages,
                   boundaries, chunk_idx, handles, folder, disk, written,
                   attempts, skipped>>

\* Lines 29-36 with the return of line 36 forgotten.
Validate_noreturn ==
    /\ pc = "validate"
    /\ LET sp == Normalize(split_pages)
           adjust == NeedsAdjust(sp, total_pages)
           kept == IF adjust THEN FilterPoints(sp, total_pages) ELSE sp
       IN  /\ split_pages' = kept
           /\ printed' = printed
                  \o (IF adjust THEN <<"warning_adjusting">> ELSE <<>>)
                  \o (IF kept = <<>> THEN <<"no_valid_points">> ELSE <<>>)
           /\ doc' = IF kept = <<>> THEN "closed" ELSE doc
           /\ pc' = "mkdir"
    /\ UNCHANGED <<arg, num_pages, fs0, total_pages, boundaries, chunk_idx,
                   handles, folder, disk, written, attempts, skipped>>

\* Lines 29-36: normalise, filter, and end the run when no point is left.
Validate ==
    /\ pc = "validate"
    /\ LET sp == Normalize(split_pages)
           adjust == NeedsAdjust(sp, total_pages)
           kept == IF adjust THEN FilterPoints(sp, total_pages) ELSE sp
       IN  /\ split_pages' = kept
           /\ printed' = printed
                  \o (IF adjust THEN <<"warning_adjusting">> ELSE <<>>)
                  \o (IF kept = <<>> THEN <<"no_valid_points">> ELSE <<>>)
           /\ doc' = IF kept = <<>> THEN "closed" ELSE doc
           /\ pc' = IF kept = <<>> THEN "done" ELSE "mkdir"
    /\ UNCHANGED <<arg, num_pages, fs0, total_pages, boundaries, chunk_idx,
                   handles, folder, disk, written, attempts, skipped>>

\* Lines 38-43: create the folder when absent, build the boundaries.
EnsureFolder ==
    /\ pc = "mkdir"
    /\ folder' = TRUE
    /\ printed' = IF folder THEN printed ELSE Append(printed, "created_folder")
    /\ boundaries' = Boundaries(split_pages, total_pages)
    /\ chunk_idx' = 0
    /\ pc' = "loop"
    /\ UNCHANGED <<arg, num_pages, fs0, doc, total_pages, split_pages,
                   handles, disk, written, attempts, skipped>>

\* Lines 44-56: one pass of the loop up to the save.
BeginChunk ==
    /\ pc = "loop"
    /\ chunk_idx < Len(boundaries) - 1
    /\ LET start_page == boundaries[chunk_idx + 1]
           end_page == boundaries[chunk_idx + 2]
       IN  IF start_page >= end_page
           THEN /\ skipped' = skipped + 1
                /\ chunk_idx' = chunk_idx + 1
                /\ UNCHANGED <<pc, handles, printed>>
           ELSE /\ handles' = Append(handles,
                       [open |-> TRUE,
                        name |-> ChunkName(start_page, end_page),
                        pages |-> ChunkPages(start_page, end_page)])
                /\ printed' = printed \o <<"processing_chunk", "attempting_write">>
                /\ pc' = "save"
                /\ UNCHANGED <<skipped, chunk_idx>>
    /\ UNCHANGED <<arg, num_pages, fs0, doc, total_pages, split_pages,
                   boundaries, folder, disk, written, attempts>>

\* The handle new_doc is bound to.
new_doc == handles[Len(handles)]

CloseNewDoc == [handles EXCEPT ![Len(handles)].open = FALSE]

\* Lines 57-65 with `continue` in place of the clean-up and return.
SaveChunk_continue ==
    /\ pc = "save"
    /\ attempts' = Append(attempts, new_doc.name)
    /\ \E ok \in BOOLEAN, partial \in BOOLEAN :
         IF ok
         THEN /\ disk' = Save(disk, new_doc.name, ChunkFile(new_doc.pages))
              /\ written' = Append(written,
                     [name |-> new_doc.name, pages |-> new_doc.pages])
              /\ pc' = "close"
              /\ UNCHANGED <<doc, handles, printed, chunk_idx>>
         ELSE /\ disk' = IF partial
                         THEN Save(disk, new_doc.name, PartialFile)
                         ELSE disk
              /\ printed' = Append(printed, "error_writing")
              /\ handles' = CloseNewDoc
              /\ chunk_idx' = chunk_idx + 1
              /\ pc' = "loop"
              /\ UNCHANGED <<written, doc>>
    /\ UNCHANGED <<arg, num_pages, fs0, total_pages, split_pages, boundaries,
                   folder, skipped>>

\* Lines 57-58, 61-65: save the chunk; a failed save closes both documents
\* and ends the run.  A failed save may leave a partial file at its path.
SaveChunk ==
    /\ pc = "save"
    /\ attempts' = Append(attempts, new_doc.name)
    /\ \E ok \in BOOLEAN, partial \in BOOLEAN :
         IF ok
         THEN /\ disk' = Save(disk, new_doc.name, ChunkFile(new_doc.pages))
              /\ written' = Append(written,
                     [name |-> new_doc.name, pages |-> new_doc.pages])
              /\ pc' = "close"
              /\ UNCHANGED <<doc, handles, printed, chunk_idx>>
         ELSE /\ disk' = IF partial
                         THEN Save(disk, new_doc.name, PartialFile)
                         ELSE disk
              /\ printed' = Append(printed, "error_writing")
              /\ handles' = CloseNewDoc
              /\ doc' = "closed"
              /\ pc' = "done"
              /\ UNCHANGED <<written, chunk_idx>>
    /\ UNCHANGED <<arg, num_pages, fs0, total_pages, split_pages, boundaries,
                   folder, skipped>>

\* Lines 59-60 with the new_doc.close() forgotten.
CloseChunk_leak ==
    /\ pc = "close"
    /\ printed' = Append(printed, "wrote_chunk")
    /\ chunk_idx' = chunk_idx + 1
    /\ pc' = "loop"
    /\ UNCHANGED <<arg, num_pages, fs0, doc, total_pages, split_pages,
                   boundaries, handles, folder, disk, written, attempts, skipped>>

\* Lines 59-60: close the chunk's document after a successful save.
CloseChunk ==
    /\ pc = "close"
    /\ handles' = CloseNewDoc
    /\ printed' = Append(printed, "wrote_chunk")
    /\ chunk_idx' = chunk_idx + 1
    /\ pc' = "loop"
    /\ UNCHANGED <<arg, num_pages, fs0, doc, total_pages, split_pages,
                   boundaries, folder, disk, written, attempts, skipped>>

\* Lines 67-68 with the doc.close() forgotten.
Finish_leak ==
    /\ pc = "loop"
    /\ chunk_idx >= Len(boundaries) - 1
    /\ printed' = Append(printed, "success")
    /\ pc' = "done"
    /\ UNCHANGED <<arg, num_pages, fs0, doc, total_pages, split_pages,
                   boundaries, chunk_idx, handles, folder, disk, written,
                   attempts, skipped>>

\* Lines 67-68: the loop is exhausted; close the input and report success.
Finish ==
    /\ pc = "loop"
    /\ chunk_idx >= Len(boundaries) - 1
    /\ doc' = "closed"
    /\ printed' = Append(printed, "success")
    /\ pc' = "done"
    /\ UNCHANGED <<arg, num_pages, fs0, total_pages, split_pages, boundaries,
                   chunk_idx, handles, folder, disk, written, attempts, skipped>>

Next ==
    \/ OpenDoc
    \/ CheckEmpty
    \/ Validate
    \/ EnsureFolder
    \/ BeginChunk
    \/ SaveChunk
    \/ CloseChunk
    \/ Finish

Spec == Init /\ [][Next]_vars

----------------------------------------------------------------------------
\* Vocabulary of the properties.

Said(msg) == \E i \in DOMAIN printed : printed[i] = msg

Terminal == pc = "done"

\* The run ended with every save successful.
Succeeded == Terminal /\ Said("success")

\* The points of the argument that are valid split points.
ValidPoints == {p \in set(arg) : InRange(p, total_pages)}

\* The ascending list of a set, by rank.
Ascending(S) ==
    [i \in 1..Cardinality(S) |->
        CHOOSE x \in S : Cardinality({y \in S : y < x}) = i - 1]

OpenHandles == {i \in DOMAIN handles : handles[i].open}

TypeOK ==
    /\ pc \in {"open", "check_pages", "validate", "mkdir", "loop", "save",
               "close", "done"}
    /\ doc \in {"unopened", "open", "closed"}
    /\ total_pages \in PageCounts
    /\ chunk_idx \in 0..(MaxLen + 1)
    /\ folder \in BOOLEAN

----------------------------------------------------------------------------
\* Properties.

\* The output files of this run, as the set of its successful saves.
WrittenSet == {written[i] : i \in DOMAIN written}

\* The interior of the boundaries is the validated list.
Validated ==
    /\ pc \notin {"open", "check_pages", "validate"}
    /\ ~Said("error_reading")
    /\ ~Said("no_pages")

EarlyExit ==
    Terminal /\ (Said("error_reading") \/ Said("no_pages") \/ Said("no_valid_points"))

\* C1: when every write succeeds, the page sets of the chunks written are
\* pairwise disjoint and their union is exactly the pages 0..total_pages-1
\* of the input: every page is copied into exactly one chunk.
C1_PartitionCoverage ==
    Succeeded =>
        /\ \A i, j \in DOMAIN written :
               i # j => written[i].pages \cap written[j].pages = {}
        /\ UNION {written[i].pages : i \in DOMAIN written} = 0..(total_pages - 1)
        /\ \A p \in 0..(total_pages - 1) :
               Cardinality({i \in DOMAIN written : p \in written[i].pages}) = 1

C1_Witness ==
    /\ Succeeded
    /\ total_pages >= 2
    /\ Len(written) >= 3
    /\ \E p \in set(arg) : ~InRange(p, total_pages)

\* C2: once the save of a chunk has failed the run is over: the failed save
\* is the last one attempted, no further chunk document was created, no
\* save was retried, and every chunk saved before it is still on disk with
\* the pages it was saved with.
C2_FailFast ==
    Said("error_writing") =>
        /\ Terminal
        /\ Len(attempts) = Len(written) + 1
        /\ Len(handles) = Len(attempts)
        /\ chunk_idx = Len(written)
        /\ \A i, j \in DOMAIN attempts : i # j => attempts[i] # attempts[j]
        /\ \A i \in DOMAIN written :
               /\ attempts[i] = written[i].name
               /\ written[i].name \in DOMAIN disk
               /\ disk[written[i].name] = ChunkFile(written[i].pages)

C2_Witness ==
    /\ Said("error_writing")
    /\ Len(written) >= 1
    /\ chunk_idx < Len(boundaries) - 2
    /\ attempts[Len(attempts)] \in DOMAIN disk
    /\ disk[attempts[Len(attempts)]] = PartialFile

\* C3: in every terminal state of a run that opened the input document,
\* the input handle is closed.
C3_InputClosedOnEveryExit ==
    (Terminal /\ ~Said("error_reading")) => doc = "closed"

\* C4: after validation the split points are exactly the points of the
\* argument with 1 <= p < total_pages: every out-of-range point is dropped
\* and every in-range point is kept, and the boundaries are built from them.
C4_ExactlyInRangePointsKept ==
    Validated =>
        /\ set(split_pages) = ValidPoints
        /\ \A i \in DOMAIN split_pages : InRange(split_pages[i], total_pages)
        /\ boundaries # <<>> =>
               {boundaries[i] : i \in 2..(Len(boundaries) - 1)} = ValidPoints

\* The filter fired only because the largest point is out of range.
C4_Witness ==
    /\ Validated
    /\ pc = "loop"
    /\ Said("warning_adjusting")
    /\ ValidPoints # {}
    /\ \A p \in set(arg) : p >= 1
    /\ \E p \in set(arg) : p >= total_pages

\* C5: a run on any ordering of the argument, with any duplicates, writes
\* the same chunks (names and page ranges) as a call with the deduplicated
\* ascending list of the same integers.
C5_OrderAndDuplicatesIrrelevant ==
    (Terminal /\ ~Said("error_reading") /\ ~Said("error_writing")) =>
        /\ WrittenSet = ChunksOfCall(Ascending(set(arg)), num_pages)
        /\ Len(written) = Cardinality(WrittenSet)

C5_Witness ==
    /\ Succeeded
    /\ Len(arg) > Cardinality(set(arg))
    /\ \E i \in 1..(Len(arg) - 1) : arg[i] > arg[i + 1]
    /\ Len(written) >= 3

\* C6: a run that ends through an early exit (unreadable input, empty
\* document, no valid split point) leaves the file system as it was: no
\* folder created, no file written, no save attempted, no chunk created.
C6_EarlyExitsTouchNothing ==
    EarlyExit =>
        /\ disk = fs0.disk
        /\ folder = fs0.folder
        /\ attempts = <<>>
        /\ written = <<>>
        /\ handles = <<>>
        /\ ~Said("created_folder")

C6_Witness ==
    /\ Terminal
    /\ Said("no_valid_points")
    /\ arg # <<>>
    /\ ~fs0.folder

\* C7: with validated points s_1 < ... < s_k and every write successful,
\* exactly k+1 files are written, the i-th named by (b[i]+1, b[i+1]) and
\* holding the pages b[i]..b[i+1]-1 for b = [0, s_1, ..., s_k, total_pages];
\* the names are pairwise distinct and each file is on disk with its pages.
C7_OneFilePerBoundaryPair ==
    Succeeded =>
        LET k == Len(split_pages)
            b == [i \in 1..(k + 2) |->
                     IF i = 1 THEN 0
                     ELSE IF i = k + 2 THEN total_pages
                     ELSE split_pages[i - 1]]
        IN  /\ k >= 1
            /\ Len(written) = k + 1
            /\ Len(attempts) = k + 1
            /\ \A i \in 1..(k + 1) :
                   /\ i \in DOMAIN written
                   /\ written[i].name = <<b[i] + 1, b[i + 1]>>
                   /\ written[i].pages = {p \in 0..total_pages : b[i] <= p /\ p < b[i + 1]}
                   /\ written[i].name \in DOMAIN disk
                   /\ disk[written[i].name] = ChunkFile(written[i].pages)
            /\ \A i, j \in DOMAIN written :
                   i # j => written[i].name # written[j].name

C7_Witness ==
    /\ Succeeded
    /\ Len(split_pages) = 3
    /\ Len(written) = 4
    /\ fs0.disk # NoFiles

\* C8: at most one output document is open at any time, it is the one
\* created last, it is open only between its creation and the end of its
\* save, and none is open when the loop creates the next one or when the
\* run has ended.
C8_OutputHandlesScoped ==
    /\ Cardinality(OpenHandles) <= 1
    /\ OpenHandles \subseteq {Len(handles)}
    /\ (OpenHandles # {}) <=> (pc \in {"save", "close"})
    /\ Terminal => OpenHandles = {}

C8_Witness ==
    /\ pc = "save"
    /\ Len(handles) >= 2
    /\ OpenHandles = {Len(handles)}
    /\ ~handles[1].open

\* C9: success is the last message of a finished run in which every
\* boundary pair was processed, no write failed, no early exit was taken
\* and the input is closed; and the folder exists whenever a save is due.
C9_SuccessOnlyAfterAllChunks ==
    /\ Said("success") =>
           /\ Terminal
           /\ printed[Len(printed)] = "success"
           /\ doc = "closed"
           /\ chunk_idx = Len(boundaries) - 1
           /\ Len(written) + skipped = Len(boundaries) - 1
           /\ Len(attempts) = Len(written)
           /\ ~Said("error_reading")
           /\ ~Said("no_pages")
           /\ ~Said("no_valid_points")
           /\ ~Said("error_writing")
    /\ pc = "save" => folder
    /\ attempts # <<>> => folder

C9_Witness ==
    /\ Succeeded
    /\ ~fs0.folder
    /\ Said("created_folder")
    /\ Len(written) >= 2

\* C10: the boundaries are 0 < s_1 < ... < s_k < total_pages with length
\* k+2, so the skip branch of the loop is never taken.
C10_BoundariesStrictlyIncreasing ==
    /\ skipped = 0
    /\ boundaries # <<>> =>
           /\ Len(boundaries) = Len(split_pages) + 2
           /\ Len(boundaries) >= 3
           /\ boundaries[1] = 0
           /\ boundaries[Len(boundaries)] = total_pages
           /\ \A i \in 1..(Len(boundaries) - 1) : boundaries[i] < boundaries[i + 1]

C10_Witness ==
    /\ Terminal
    /\ boundaries # <<>>
    /\ chunk_idx = Len(boundaries) - 1
    /\ Len(arg) > Cardinality(set(arg))
    /\ Said("warning_adjusting")

=============================================================================
